---- MODULE Spec2Model ----
(***************************************************************************)
(* Model of the capacity-model Google Sheets integration                   *)
(* (google_sheets_integration/cursor_integration.py): one                  *)
(* GoogleSheetsIntegration instance, the spreadsheet and the webhook it    *)
(* talks to, the matrix classifier, and the command-line tool             *)
(* (capacity_cli.py) that drives the instance.                             *)
(*                                                                         *)
(* Python values held in cells and dictionaries are tagged with their     *)
(* type: Str(s) is a str, Num(n) a number; None is the string "None" in a  *)
(* field that otherwise holds a record or handle.  A spreadsheet table is  *)
(* a sequence of rows, a row a sequence of cells.                          *)
(* Every operation leaves in `last` what it was called with, what it       *)
(* returned or raised, and how many remote calls it issued.                *)
(***************************************************************************)
EXTENDS Integers, Sequences, FiniteSets, TLC

VARIABLES
    service,    \* self.service: "None" until authenticate() builds it
    token,      \* the credential cache file token.pickle
    credsFile,  \* whether self.credentials_path exists on disk
    sheets,     \* the spreadsheet: sheet name -> stored table
    project,    \* the ProjectRecord and RuleSet handed to the classifier
    criteriaFile, \* the criteria (role -> criterion, in order) handed to save
    last,       \* the most recent call on the instance and its outcome
    cli         \* the capacity_cli.py process: its command, position and exit

vars == <<service, token, credsFile, sheets, project, criteriaFile, last, cli>>

-----------------------------------------------------------------------------
(* Bounds of the model *)

MaxRows == 2        \* data rows of a stored criteria table
MaxRules == 2       \* rules of a RuleSet given to classify / save
MaxDesc == 3        \* characters of a project description
MaxReps == 2        \* sales reps (data rows) of the capacity sheet

-----------------------------------------------------------------------------
(* Program constants *)

DefaultMinSales == 0
DefaultMaxSales == 999999999
HttpOk == 200

MatrixSheet == "Matrix"
CapacitySheet == "Capacity Rep Projection"
SheetNames == {MatrixSheet, CapacitySheet}

(* Python values *)
Str(s) == [str |-> s]
Num(n) == [num |-> n]
IsStr(v) == "str" \in DOMAIN v
IsNum(v) == "num" \in DOMAIN v

\* bool(v) of a str or a number
Truthy(v) == IF IsStr(v) THEN v.str # "" ELSE v.num # 0

MatrixHeader == <<Str("Role"), Str("Keywords"), Str("Min Sales ($)"), Str("Max Sales ($)")>>

-----------------------------------------------------------------------------
(* The record every operation leaves behind *)

NoCall ==
    [op |-> "init", pre |-> "None", outcome |-> "return", exc |-> "none",
     ret |-> "None", api |-> "none", gets |-> 0, updates |-> 0, posts |-> 0,
     tokenWrites |-> 0, refreshes |-> 0, flows |-> 0, sheet |-> "None", inp |-> "None", sent |-> "None"]

\* No command-line process has been started.
NoCli ==
    [pc |-> "idle", command |-> "none", exit |-> 0, line |-> "none",
     authed |-> FALSE, rangeOps |-> 0, notAuthenticated |-> 0]

\* No classification asked for.
NoProject == [description |-> <<>>, salesAmount |-> 0, rules |-> <<>>]

Returned(op, pre, ret) ==
    [NoCall EXCEPT !.op = op, !.pre = pre, !.ret = ret]

Raised(op, pre, exc) ==
    [NoCall EXCEPT !.op = op, !.pre = pre, !.outcome = "raise", !.exc = exc]

-----------------------------------------------------------------------------
(* authenticate() *)

TokenStates == {"absent", "valid", "expired", "stale"}
    \* absent : token.pickle does not exist
    \* valid  : creds.valid
    \* expired: not valid, creds.expired and creds.refresh_token
    \* stale  : not valid and not refreshable

\* What the remote steps of authenticate() can do.
AuthEnv == [refresh : {"ok", "raise"}, flow : {"ok", "raise"}, build : {"ok", "raise"}]

\* A failed build that also drops the handle the instance held.
ServiceAfterBuildCleared(svc, built) == IF built THEN "svc" ELSE "None"

\* self.service = build(...): assigned only when build() returns
ServiceAfterBuild(svc, built) == IF built THEN "svc" ELSE svc

\* A cache that is written on every call.
TokenWritesAlways(needNew) == 1

\* The number of times token.pickle is written: the write is inside
\* `if not creds or not creds.valid`.
TokenWrites(needNew) == IF needNew THEN 1 ELSE 0

\* The outcome of authenticate() on an instance holding svc, with token.pickle
\* in state tok and the credentials file present or not: the service handle
\* and the token file it leaves, and the record of the call.
AuthenticateResult(svc, tok, creds, env) ==
    LET needNew == tok # "valid"
        refreshable == tok = "expired"
        called == [NoCall EXCEPT !.op = "authenticate", !.pre = svc, !.inp = tok,
                                 !.refreshes = IF needNew /\ refreshable THEN 1 ELSE 0,
                                 !.flows = IF needNew /\ ~refreshable /\ creds THEN 1 ELSE 0]
        raised(exc) ==
            [service |-> svc, token |-> tok,
             last |-> [called EXCEPT !.outcome = "raise", !.exc = exc]]
        built ==
            [service |-> ServiceAfterBuild(svc, env.build = "ok"),
             token |-> IF TokenWrites(needNew) > 0 THEN "valid" ELSE tok,
             last |-> [called EXCEPT !.ret = (env.build = "ok"),
                                     !.tokenWrites = TokenWrites(needNew)]]
    IN  IF ~needNew THEN built
        ELSE IF refreshable
          THEN IF env.refresh = "ok" THEN built ELSE raised("RefreshError")
          ELSE IF ~creds THEN raised("FileNotFoundError")
          ELSE IF env.flow = "ok" THEN built ELSE raised("FlowError")

authenticate(env) ==
    LET result == AuthenticateResult(service, token, credsFile, env)
    IN  /\ service' = result.service
        /\ token' = result.token
        /\ last' = result.last
        /\ UNCHANGED <<credsFile, sheets, project, criteriaFile, cli>>

-----------------------------------------------------------------------------
(* The spreadsheet API behind self.service *)

ApiOutcomes == {"ok", "fail"}

\* values().get(...).execute(): the stored rows; result.get('values', [])
ApiGet(sheet_name) == sheets[sheet_name]

\* The decimal text of a non-negative whole number, as the sheet shows it.
Digit(d) ==
    CASE d = 0 -> "0" [] d = 1 -> "1" [] d = 2 -> "2" [] d = 3 -> "3" [] d = 4 -> "4"
      [] d = 5 -> "5" [] d = 6 -> "6" [] d = 7 -> "7" [] d = 8 -> "8" [] d = 9 -> "9"

RECURSIVE FormatNumber(_)
FormatNumber(n) ==
    IF n < 10 THEN Digit(n) ELSE FormatNumber(n \div 10) \o Digit(n % 10)

\* values().update(..., valueInputOption='RAW'): a str is stored as it is, a
\* number is stored as a number and read back as its text.
ApiStored(data) ==
    [i \in DOMAIN data |->
        [j \in DOMAIN data[i] |->
            IF IsNum(data[i][j]) THEN Str(FormatNumber(data[i][j].num)) ELSE data[i][j]]]

-----------------------------------------------------------------------------
(* read_sheet_data / write_sheet_data *)

\* read_sheet_data without its guard on self.service: the attribute access on
\* None raises inside the try block, and the handler returns [].
ReadResultUnguarded(svc, sheet_name, api) ==
    IF svc = "None" \/ api # "ok"
      THEN [Returned("read_sheet_data", svc, <<>>)
              EXCEPT !.api = IF svc = "None" THEN "none" ELSE api,
                     !.gets = IF svc = "None" THEN 0 ELSE 1,
                     !.sheet = sheet_name, !.inp = sheet_name]
      ELSE [Returned("read_sheet_data", svc, ApiGet(sheet_name))
              EXCEPT !.api = api, !.gets = 1, !.sheet = sheet_name, !.inp = sheet_name]

\* The value read_sheet_data returns, and the calls it issues, when the
\* instance holds the service handle svc and the API answers api.
ReadResult(svc, sheet_name, api) ==
    IF svc = "None"
      THEN [Raised("read_sheet_data", svc, "NotAuthenticated") EXCEPT !.sheet = sheet_name, !.inp = sheet_name]
      ELSE IF api = "ok"
        THEN [Returned("read_sheet_data", svc, ApiGet(sheet_name))
                EXCEPT !.api = api, !.gets = 1, !.sheet = sheet_name, !.inp = sheet_name]
        ELSE [Returned("read_sheet_data", svc, <<>>)
                EXCEPT !.api = api, !.gets = 1, !.sheet = sheet_name, !.inp = sheet_name]

read_sheet_data(sheet_name, api) ==
    /\ last' = ReadResult(service, sheet_name, api)
    /\ UNCHANGED <<service, token, credsFile, sheets, project, criteriaFile, cli>>

\* write_sheet_data without its except clause: the API error propagates.
WriteResultPropagating(svc, sheet_name, data, api) ==
    IF svc = "None"
      THEN [Raised("write_sheet_data", svc, "NotAuthenticated")
              EXCEPT !.sheet = sheet_name, !.inp = sheet_name, !.sent = data]
      ELSE IF api = "ok"
        THEN [Returned("write_sheet_data", svc, TRUE)
                EXCEPT !.api = api, !.updates = 1, !.sheet = sheet_name,
                       !.inp = sheet_name, !.sent = data]
        ELSE [Raised("write_sheet_data", svc, "HttpError")
                EXCEPT !.api = api, !.updates = 1, !.sheet = sheet_name,
                       !.inp = sheet_name, !.sent = data]

\* The outcome of write_sheet_data on an instance holding svc.
WriteResult(svc, sheet_name, data, api) ==
    IF svc = "None"
      THEN [Raised("write_sheet_data", svc, "NotAuthenticated")
              EXCEPT !.sheet = sheet_name, !.inp = sheet_name, !.sent = data]
      ELSE [Returned("write_sheet_data", svc, api = "ok")
              EXCEPT !.api = api, !.updates = 1, !.sheet = sheet_name,
                       !.inp = sheet_name, !.sent = data]

write_sheet_data(sheet_name, data, api) ==
    /\ last' = WriteResult(service, sheet_name, data, api)
    /\ sheets' = IF service # "None" /\ api = "ok"
                   THEN [sheets EXCEPT ![sheet_name] = ApiStored(data)]
                   ELSE sheets
    /\ UNCHANGED <<service, token, credsFile, project, criteriaFile, cli>>

-----------------------------------------------------------------------------
(* The criteria repository: get_matrix_criteria / update_matrix_criteria.   *)
(* A dict is the sequence of its items in insertion order.                  *)

\* d[key] = value: a new key goes to the end, a known key keeps its place.
DictSet(d, key, value) ==
    IF \E i \in DOMAIN d : d[i].key = key
      THEN [i \in DOMAIN d |-> IF d[i].key = key THEN [key |-> key, value |-> value] ELSE d[i]]
      ELSE Append(d, [key |-> key, value |-> value])

\* criterion.get(field, default)
DictGet(criterion, field, default) ==
    IF field \in DOMAIN criterion THEN criterion[field] ELSE default

\* float(text): the texts that parse, and their values.
CanParseFloat(text) == text \in {"0", "100", "1e2", "500", "999999999"}

FloatOf(text) ==
    CASE text = "0" -> 0
      [] text = "100" -> 100
      [] text = "1e2" -> 100
      [] text = "500" -> 500
      [] text = "999999999" -> 999999999

\* if len(row) >= 4 and row[0] and row[1]
RowAccepted(row) == Len(row) >= 4 /\ Truthy(row[1]) /\ Truthy(row[2])

\* the cell is there and non-empty, so float() is applied to it
CellGiven(row, k) == Len(row) >= k /\ Truthy(row[k])

\* float() raises ValueError on the third or fourth cell of the row
RowRaises(row) ==
    \/ CellGiven(row, 3) /\ ~CanParseFloat(row[3].str)
    \/ CellGiven(row, 4) /\ ~CanParseFloat(row[4].str)

RowCriterion(row) ==
    [keywords |-> row[2],
     minSales |-> IF CellGiven(row, 3) THEN Num(FloatOf(row[3].str)) ELSE Num(DefaultMinSales),
     maxSales |-> IF CellGiven(row, 4) THEN Num(FloatOf(row[4].str)) ELSE Num(DefaultMaxSales)]

\* for row in data[1:], from the i-th row of data on
RECURSIVE LoadFrom(_, _, _)
LoadFrom(data, i, criteria) ==
    IF i > Len(data) THEN [exc |-> "none", criteria |-> criteria]
    ELSE IF ~RowAccepted(data[i]) THEN LoadFrom(data, i + 1, criteria)
    ELSE IF RowRaises(data[i]) THEN [exc |-> "ValueError", criteria |-> criteria]
    ELSE LoadFrom(data, i + 1, DictSet(criteria, data[i][1], RowCriterion(data[i])))

\* What get_matrix_criteria makes of the rows it read.
MatrixCriteria(data) ==
    IF Len(data) < 2
      THEN [exc |-> "none", criteria |-> <<>>]
      ELSE LoadFrom(data, 2, <<>>)

\* The outcome of get_matrix_criteria on an instance holding svc.
GetCriteriaResult(svc, api) ==
    LET read == ReadResult(svc, MatrixSheet, api)
        parsed == MatrixCriteria(read.ret)
        called == [read EXCEPT !.op = "get_matrix_criteria", !.inp = sheets[MatrixSheet]]
    IN  IF read.outcome = "raise" THEN called
        ELSE IF parsed.exc # "none"
          THEN [called EXCEPT !.outcome = "raise", !.exc = parsed.exc, !.ret = "None"]
          ELSE [called EXCEPT !.ret = parsed.criteria]

get_matrix_criteria(api) ==
    /\ last' = GetCriteriaResult(service, api)
    /\ UNCHANGED <<service, token, credsFile, sheets, project, criteriaFile, cli>>

\* A save that forgets the header row.
SaveDataNoHeader(criteria) ==
    [i \in 1..Len(criteria) |->
        <<criteria[i].key,
          DictGet(criteria[i].value, "keywords", Str("")),
          DictGet(criteria[i].value, "minSales", Num(DefaultMinSales)),
          DictGet(criteria[i].value, "maxSales", Num(DefaultMaxSales))>>]

\* The table update_matrix_criteria builds: the header, then a row per item.
SaveData(criteria) ==
    <<MatrixHeader>> \o
    [i \in 1..Len(criteria) |->
        <<criteria[i].key,
          DictGet(criteria[i].value, "keywords", Str("")),
          DictGet(criteria[i].value, "minSales", Num(DefaultMinSales)),
          DictGet(criteria[i].value, "maxSales", Num(DefaultMaxSales))>>]

\* criterion.get exists: the criterion is a dict, not a bare keyword string
\* (the shape the criteria had before the sales bands).
AllCriteriaAreDicts(criteria) == \A i \in DOMAIN criteria : ~IsStr(criteria[i].value)

\* The outcome of update_matrix_criteria on an instance holding svc: building
\* the rows comes first and raises on a criterion without .get; then the write.
UpdateCriteriaResult(svc, criteria, api) ==
    IF ~AllCriteriaAreDicts(criteria)
      THEN [Raised("update_matrix_criteria", svc, "AttributeError") EXCEPT !.inp = criteria]
      ELSE [WriteResult(svc, MatrixSheet, SaveData(criteria), api)
              EXCEPT !.op = "update_matrix_criteria", !.inp = criteria]

update_matrix_criteria(criteria, api) ==
    /\ last' = UpdateCriteriaResult(service, criteria, api)
    /\ sheets' = IF service # "None" /\ api = "ok" /\ AllCriteriaAreDicts(criteria)
                   THEN [sheets EXCEPT ![MatrixSheet] = ApiStored(SaveData(criteria))]
                   ELSE sheets
    /\ UNCHANGED <<service, token, credsFile, project, criteriaFile, cli>>

\* update_matrix_criteria(get_matrix_criteria()): the load, then the save of
\* what it returned.
save_loaded(apiRead, apiWrite) ==
    LET loaded == GetCriteriaResult(service, apiRead)
        saved == UpdateCriteriaResult(service, loaded.ret, apiWrite)
    IN  /\ IF loaded.outcome = "raise"
             THEN /\ last' = [loaded EXCEPT !.op = "save_loaded"]
                  /\ sheets' = sheets
             ELSE /\ last' = [saved EXCEPT !.op = "save_loaded",
                                           !.inp = sheets[MatrixSheet],
                                           !.gets = loaded.gets,
                                           !.api = IF apiRead = "ok" THEN apiWrite ELSE "fail"]
                  /\ sheets' = IF apiWrite = "ok"
                                 THEN [sheets EXCEPT ![MatrixSheet] = ApiStored(saved.sent)]
                                 ELSE sheets
        /\ UNCHANGED <<service, token, credsFile, project, criteriaFile, cli>>

(* The criteria tables and criteria dicts the repository is run on *)

RoleCells == {Str(""), Str("Admin"), Str("Production Specialist")}
KeywordCells == {Str(""), Str("admin,management")}
MinCells == {Str(""), Str("1e2"), Str("abc")}
MaxCells == {Str(""), Str("500")}

FullRows == {<<a, b, c, d>> : a \in RoleCells, b \in KeywordCells, c \in MinCells, d \in MaxCells}

\* The API leaves trailing empty cells out: rows come in every length.
MatrixRows == {SubSeq(r, 1, n) : r \in FullRows, n \in 0..4}

RECURSIVE RowSeqsOfLen(_)
RowSeqsOfLen(n) ==
    IF n = 0 THEN {<<>>}
    ELSE {Append(q, r) : q \in RowSeqsOfLen(n - 1), r \in MatrixRows}

\* The stored tables with at most maxRows rows under the header, and the
\* empty sheet.
MatrixTables(maxRows) ==
    {<<>>} \cup {<<MatrixHeader>> \o rows : rows \in UNION {RowSeqsOfLen(n) : n \in 0..maxRows}}

InitLoad ==
    /\ service = "None"
    /\ token = "valid"
    /\ credsFile = TRUE
    /\ sheets \in {[n \in SheetNames |-> IF n = MatrixSheet THEN t ELSE <<>>] : t \in MatrixTables(MaxRows)}
    /\ project = NoProject
    /\ criteriaFile = <<>>
    /\ last = NoCall
    /\ cli = NoCli

NextLoad ==
    \/ \E env \in AuthEnv : authenticate(env)
    \/ \E api \in ApiOutcomes : get_matrix_criteria(api)
    \/ \E apiRead, apiWrite \in ApiOutcomes : save_loaded(apiRead, apiWrite)

SpecLoad == InitLoad /\ [][NextLoad]_vars

Criteria ==
    {[keywords |-> Str("admin,management"), minSales |-> Num(100), maxSales |-> Num(500)],
     [keywords |-> Str("production"), minSales |-> Num(0)],
     [keywords |-> Str("assembly")],
     [maxSales |-> Num(500)],
     [f \in {} |-> Num(0)],
     Str("admin,management")}

CriteriaRoles == {Str("Admin"), Str("Production Specialist"), Str("Team Lead")}

RECURSIVE DictsOfLen(_)
DictsOfLen(n) ==
    IF n = 0 THEN {<<>>}
    ELSE {Append(d, [key |-> k, value |-> c]) :
            d \in DictsOfLen(n - 1), k \in CriteriaRoles, c \in Criteria}

HasDistinctKeys(d) == \A i, j \in DOMAIN d : d[i].key = d[j].key => i = j

CriteriaDicts ==
    {d \in UNION {DictsOfLen(n) : n \in 0..MaxRules} : HasDistinctKeys(d)}

InitSave ==
    /\ service = "None"
    /\ token = "valid"
    /\ credsFile = TRUE
    /\ sheets = [n \in SheetNames |-> <<>>]
    /\ project = NoProject
    /\ criteriaFile \in CriteriaDicts
    /\ last = NoCall
    /\ cli = NoCli

NextSave ==
    \/ \E env \in AuthEnv : authenticate(env)
    \/ \E api \in ApiOutcomes : update_matrix_criteria(criteriaFile, api)

SpecSave == InitSave /\ [][NextSave]_vars

-----------------------------------------------------------------------------
(* trigger_capacity_model_generation *)

StatusCodes == {200, 201, 204, 404, 500}

\* response.json(): a body that is no JSON, a JSON value that is no object,
\* or an object with or without a "status" member.
Bodies ==
    {[kind |-> "unparsable"], [kind |-> "array"], [kind |-> "object"]}
    \cup {[kind |-> "object", status |-> s] : s \in {"success", "Success", "error"}}

\* requests.post(...): it raises, or it returns a response.
Responses ==
    {[net |-> e] : e \in {"ConnectionError", "Timeout"}}
    \cup {[net |-> "ok", status_code |-> c, body |-> b] : c \in StatusCodes, b \in Bodies}

\* The 2xx status codes.
IsSuccessStatus(c) == c >= 200 /\ c <= 299

\* The body is a JSON object whose status member is exactly "success".
HasSuccessMarker(resp) ==
    /\ resp.net = "ok"
    /\ resp.body.kind = "object"
    /\ "status" \in DOMAIN resp.body
    /\ resp.body.status = "success"

\* A trigger that accepts every body of a 200 response that parses to an object.
TriggerValueAnyBody(resp) ==
    resp.net = "ok" /\ resp.status_code = HttpOk /\ resp.body.kind = "object"

\* The value the call returns for what requests.post did.
TriggerValue(resp) ==
    IF resp.net # "ok"
      THEN FALSE                                    \* except Exception
      ELSE IF resp.status_code = HttpOk
        THEN IF resp.body.kind # "object"
               THEN FALSE                           \* json() or .get raises
               ELSE IF "status" \in DOMAIN resp.body /\ resp.body.status = "success"
                      THEN TRUE
                      ELSE FALSE
        ELSE FALSE

\* A trigger that posts again after a failed attempt.
TriggerPostsRetrying(resp) == IF TriggerValue(resp) THEN 1 ELSE 2

\* The requests the call sends for what requests.post did.
TriggerPosts(resp) == 1

\* The whole body is inside try / except Exception: the call always returns.
TriggerResult(svc, resp) ==
    [Returned("trigger_capacity_model_generation", svc, TriggerValue(resp))
       EXCEPT !.posts = TriggerPosts(resp), !.inp = resp]

trigger_capacity_model_generation(resp) ==
    /\ last' = TriggerResult(service, resp)
    /\ UNCHANGED <<service, token, credsFile, sheets, project, criteriaFile, cli>>

-----------------------------------------------------------------------------
(* The matrix classifier.  Text is a sequence of characters. *)

Lower(ch) == CASE ch = "A" -> "a" [] ch = "B" -> "b" [] OTHER -> ch

ToLower(text) == [i \in DOMAIN text |-> Lower(text[i])]

\* The keywords of a comma-separated keyword list, in order.
RECURSIVE SplitFrom(_, _, _)
SplitFrom(text, i, word) ==
    IF i > Len(text) THEN <<word>>
    ELSE IF text[i] = "," THEN <<word>> \o SplitFrom(text, i + 1, <<>>)
    ELSE SplitFrom(text, i + 1, Append(word, text[i]))

Split(text) == SplitFrom(text, 1, <<>>)

\* kw occurs in text as a substring
Contains(text, kw) ==
    \E i \in 1..(Len(text) - Len(kw) + 1) : SubSeq(text, i, i + Len(kw) - 1) = kw

\* some keyword of the rule occurs in the (already lower-cased) description
KeywordMatches(rule, lowered) ==
    LET kws == Split(rule.keywords)
    IN  \E k \in DOMAIN kws : Contains(lowered, kws[k])

\* the sales band of the rule, where the rule has one, contains the amount
InBand(rule, salesAmount) ==
    ("minSales" \in DOMAIN rule /\ "maxSales" \in DOMAIN rule) =>
        (rule.minSales <= salesAmount /\ salesAmount <= rule.maxSales)

\* A classifier that reports unmatched descriptions with a sentinel.
RECURSIVE ClassifyFromSentinel(_, _, _, _)
ClassifyFromSentinel(i, lowered, salesAmount, rules) ==
    IF i > Len(rules) THEN "Unclassified"
    ELSE IF KeywordMatches(rules[i], lowered) /\ InBand(rules[i], salesAmount)
      THEN rules[i].role
      ELSE ClassifyFromSentinel(i + 1, lowered, salesAmount, rules)

\* A classifier that selects on keywords alone and ignores the sales band.
RECURSIVE ClassifyFromNoBand(_, _, _, _)
ClassifyFromNoBand(i, lowered, salesAmount, rules) ==
    IF i > Len(rules) THEN rules[Len(rules)].role
    ELSE IF KeywordMatches(rules[i], lowered)
      THEN rules[i].role
      ELSE ClassifyFromNoBand(i + 1, lowered, salesAmount, rules)

\* The rules from the i-th on, in order: the first that matches wins, and when
\* the list is exhausted the last rule's role is the answer.
RECURSIVE ClassifyFrom(_, _, _, _)
ClassifyFrom(i, lowered, salesAmount, rules) ==
    IF i > Len(rules) THEN rules[Len(rules)].role
    ELSE IF KeywordMatches(rules[i], lowered) /\ InBand(rules[i], salesAmount)
      THEN rules[i].role
      ELSE ClassifyFrom(i + 1, lowered, salesAmount, rules)

FirstMatchNoBand(lowered, salesAmount, rules) == ClassifyFromNoBand(1, lowered, salesAmount, rules)

FirstMatchSentinel(lowered, salesAmount, rules) == ClassifyFromSentinel(1, lowered, salesAmount, rules)

FirstMatch(lowered, salesAmount, rules) == ClassifyFrom(1, lowered, salesAmount, rules)

classify(description, salesAmount, rules) ==
    IF rules = <<>>
      THEN "None"
      ELSE FirstMatch(ToLower(description), salesAmount, rules)

Classify ==
    /\ last' = [Returned("classify", service,
                          classify(project.description, project.salesAmount, project.rules))
                  EXCEPT !.inp = project]
    /\ UNCHANGED <<service, token, credsFile, sheets, project, criteriaFile, cli>>

(* The descriptions, amounts and rule sets the classifier is run on *)

Chars == {"a", "B"}

RECURSIVE SeqsUpTo(_, _)
SeqsUpTo(S, n) ==
    IF n = 0 THEN {<<>>}
    ELSE LET shorter == SeqsUpTo(S, n - 1)
         IN  shorter \cup {Append(q, x) : q \in shorter, x \in S}

Descriptions == SeqsUpTo(Chars, MaxDesc)

SalesAmounts == {50, 150, 250}

RoleNames == <<"Admin", "Production Specialist", "Sr. Production", "Team Lead">>

KeywordLists == {<<"a">>, <<"a", "b">>, <<"b", ",", "a", "a">>, <<"B">>}

Bands == {[minSales |-> DefaultMinSales, maxSales |-> 100],
          [minSales |-> 200, maxSales |-> DefaultMaxSales]}

\* The rules that can stand at position i of a rule set: with or without a band.
RulesAt(i) ==
    {[role |-> RoleNames[i], keywords |-> k] : k \in KeywordLists}
    \cup {[role |-> RoleNames[i], keywords |-> k,
            minSales |-> b.minSales, maxSales |-> b.maxSales] : k \in KeywordLists, b \in Bands}

RECURSIVE RuleSetsOfLen(_)
RuleSetsOfLen(n) ==
    IF n = 0 THEN {<<>>}
    ELSE {Append(q, r) : q \in RuleSetsOfLen(n - 1), r \in RulesAt(n)}

RuleSets == UNION {RuleSetsOfLen(n) : n \in 0..MaxRules}

InitClassify ==
    /\ service = "None"
    /\ token = "absent"
    /\ credsFile = FALSE
    /\ sheets = [n \in SheetNames |-> <<>>]
    /\ project \in [description : Descriptions, salesAmount : SalesAmounts, rules : RuleSets]
    /\ criteriaFile = <<>>
    /\ last = NoCall
    /\ cli = NoCli

NextClassify == Classify

SpecClassify == InitClassify /\ [][NextClassify]_vars

-----------------------------------------------------------------------------
(* The instance against a small spreadsheet *)

Cells == {Str(""), Str("Admin"), Str("admin,management")}

SmallRows == {<<>>, <<Str("Admin")>>, <<Str("Admin"), Str("admin,management")>>}

SmallTables == {<<>>, <<MatrixHeader>>} \cup {<<MatrixHeader, r>> : r \in SmallRows}

Init ==
    /\ service = "None"
    /\ token \in TokenStates
    /\ credsFile \in BOOLEAN
    /\ sheets \in [SheetNames -> {<<>>, <<MatrixHeader, <<Str("Admin"), Str("admin,management")>>>>}]
    /\ project = NoProject
    /\ criteriaFile = <<>>
    /\ last = NoCall
    /\ cli = NoCli

Next ==
    \/ \E env \in AuthEnv : authenticate(env)
    \/ \E n \in SheetNames, api \in ApiOutcomes : read_sheet_data(n, api)
    \/ \E n \in SheetNames, d \in SmallTables, api \in ApiOutcomes : write_sheet_data(n, d, api)
    \/ \E resp \in Responses : trigger_capacity_model_generation(resp)

Spec == Init /\ [][Next]_vars

-----------------------------------------------------------------------------
(* The aggregator: get_capacity_model_data / get_capacity_insights.         *)
(* A DataFrame is its column names and its rows; a fraction num/den stands  *)
(* for the float a division gives.                                          *)

EmptyDict == <<>>

NoneValue == [none |-> TRUE]
IsNone(v) == "none" \in DOMAIN v

EmptyFrame == [columns |-> <<>>, rows |-> <<>>]

\* An emptiness test that never answers yes.
DfEmptyNever(df) == FALSE

\* df.empty: no rows or no columns
DfEmpty(df) == Len(df.rows) = 0 \/ Len(df.columns) = 0

NumericColumns ==
    {"Sales ($)", "Admin Count", "Prod Spec Count", "Sr. Prod Count",
     "Team Lead Count", "Intl Project Count"}

\* pd.to_numeric(errors='coerce').fillna(0) of one cell: the number a text
\* spells, and 0 for None and for every text that spells none.
ToNumeric(v) ==
    IF IsNum(v) THEN v
    ELSE IF IsNone(v) THEN Num(0)
    ELSE CASE v.str = "0" -> Num(0)
           [] v.str = "1" -> Num(1)
           [] v.str = "2" -> Num(2)
           [] v.str = "3" -> Num(3)
           [] v.str = "4" -> Num(4)
           [] v.str = "1000" -> Num(1000)
           [] v.str = "2000" -> Num(2000)
           [] OTHER -> Num(0)

RECURSIVE MaxWidth(_)
MaxWidth(rows) ==
    IF rows = <<>> THEN 0
    ELSE LET rest == MaxWidth(Tail(rows))
         IN  IF Len(Head(rows)) > rest THEN Len(Head(rows)) ELSE rest

\* pd.DataFrame(data[1:], columns=data[0]): short rows are filled with None;
\* the widest row must be as wide as the header, or the constructor raises.
FrameOf(data) ==
    LET header == data[1]
        body == Tail(data)
    IN  IF body # <<>> /\ MaxWidth(body) # Len(header)
          THEN [exc |-> "ValueError", df |-> EmptyFrame]
          ELSE [exc |-> "none",
                df |-> [columns |-> [j \in DOMAIN header |-> header[j].str],
                        rows |-> [i \in DOMAIN body |->
                                    [j \in DOMAIN header |->
                                        LET v == IF j <= Len(body[i]) THEN body[i][j] ELSE NoneValue
                                        IN  IF header[j].str \in NumericColumns
                                              THEN ToNumeric(v) ELSE v]]]]

\* What get_capacity_model_data makes of the rows it read.
CapacityFrame(data) ==
    IF data = <<>> THEN [exc |-> "none", df |-> EmptyFrame] ELSE FrameOf(data)

HasColumn(df, name) == \E j \in DOMAIN df.columns : df.columns[j] = name

ColumnIndex(df, name) == CHOOSE j \in DOMAIN df.columns :
    df.columns[j] = name /\ \A k \in 1..(j - 1) : df.columns[k] # name

\* df[name] as the sequence of its numbers
Column(df, name) == [i \in DOMAIN df.rows |-> df.rows[i][ColumnIndex(df, name)].num]

RECURSIVE SumSeq(_)
SumSeq(xs) == IF xs = <<>> THEN 0 ELSE Head(xs) + SumSeq(Tail(xs))

\* An idxmax that keeps the last of the rows that hold the maximum.
IdxMaxLast(xs) ==
    CHOOSE i \in DOMAIN xs :
        /\ \A j \in DOMAIN xs : xs[j] <= xs[i]
        /\ \A j \in (i + 1)..Len(xs) : xs[j] < xs[i]

\* Series.idxmax(): the first position of the maximum
IdxMax(xs) ==
    CHOOSE i \in DOMAIN xs :
        /\ \A j \in DOMAIN xs : xs[j] <= xs[i]
        /\ \A j \in 1..(i - 1) : xs[j] < xs[i]

\* A mean over the rows after the first.
MeanSkippingFirst(xs) == [num |-> SumSeq(xs), den |-> Len(xs) - 1]

\* Series.mean()
Mean(xs) == [num |-> SumSeq(xs), den |-> Len(xs)]

\* df.loc[i].to_dict(): column name -> value of row i
RowDict(df, i) ==
    [name \in {df.columns[j] : j \in DOMAIN df.columns} |->
        df.rows[i][ColumnIndex(df, name)]]

RoleCountColumns == <<"Admin Count", "Prod Spec Count", "Sr. Prod Count", "Team Lead Count">>

\* A denominator that counts the international projects as well.
RoleTotalWithInternational(df) ==
    SumSeq([k \in 1..4 |-> SumSeq(Column(df, RoleCountColumns[k]))])
    + SumSeq(Column(df, "Intl Project Count"))

\* df[['Admin Count', 'Prod Spec Count', 'Sr. Prod Count', 'Team Lead Count']].sum().sum()
RoleTotal(df) ==
    SumSeq([k \in 1..4 |-> SumSeq(Column(df, RoleCountColumns[k]))])

\* A percentage cut down to a whole number.
PercentageTruncated(count, total) ==
    IF total > 0 THEN [num |-> (count * 100) \div total, den |-> 1] ELSE [num |-> 0, den |-> 1]

\* (count / total) * 100 if total > 0 else 0
Percentage(count, total) ==
    IF total > 0 THEN [num |-> count * 100, den |-> total] ELSE [num |-> 0, den |-> 1]

\* The insights dictionary of a frame that has rows.
Insights(df) ==
    [total_sales_reps |-> Len(df.rows),
     total_sales |-> SumSeq(Column(df, "Sales ($)")),
     avg_sales_per_rep |-> Mean(Column(df, "Sales ($)")),
     top_performer |-> RowDict(df, IdxMax(Column(df, "Sales ($)"))),
     total_projects |->
        [admin |-> SumSeq(Column(df, "Admin Count")),
         prod_spec |-> SumSeq(Column(df, "Prod Spec Count")),
         sr_prod |-> SumSeq(Column(df, "Sr. Prod Count")),
         team_lead |-> SumSeq(Column(df, "Team Lead Count")),
         international |-> SumSeq(Column(df, "Intl Project Count"))],
     capacity_distribution |->
        [admin_percentage |-> Percentage(SumSeq(Column(df, "Admin Count")), RoleTotal(df)),
         prod_spec_percentage |-> Percentage(SumSeq(Column(df, "Prod Spec Count")), RoleTotal(df)),
         sr_prod_percentage |-> Percentage(SumSeq(Column(df, "Sr. Prod Count")), RoleTotal(df)),
         team_lead_percentage |-> Percentage(SumSeq(Column(df, "Team Lead Count")), RoleTotal(df))]]

\* The outcome of get_capacity_insights on an instance holding svc.
InsightsResult(svc, api) ==
    LET read == ReadResult(svc, CapacitySheet, api)
        frame == CapacityFrame(read.ret)
        called == [read EXCEPT !.op = "get_capacity_insights", !.inp = sheets[CapacitySheet]]
        raised(exc) == [called EXCEPT !.outcome = "raise", !.exc = exc, !.ret = "None"]
    IN  IF read.outcome = "raise" THEN called
        ELSE IF frame.exc # "none" THEN raised(frame.exc)
        ELSE IF DfEmpty(frame.df) THEN [called EXCEPT !.ret = EmptyDict]
        ELSE IF \E name \in NumericColumns : ~HasColumn(frame.df, name) THEN raised("KeyError")
        ELSE [called EXCEPT !.ret = Insights(frame.df)]

get_capacity_insights(api) ==
    /\ last' = InsightsResult(service, api)
    /\ UNCHANGED <<service, token, credsFile, sheets, project, criteriaFile, cli>>

(* The capacity sheets the aggregator is run on *)

CapacityHeader ==
    <<Str("Sales Rep First"), Str("Sales Rep Last"), Str("Sales ($)"), Str("Admin Count"),
      Str("Prod Spec Count"), Str("Sr. Prod Count"), Str("Team Lead Count"),
      Str("Intl Project Count")>>

\* The header of a sheet that has no role counts beyond the admin one.
ShortHeader == SubSeq(CapacityHeader, 1, 4)

RepNames == <<"John", "Jane", "Ann", "Bob">>

SalesCells == {Str("1000"), Str("2000"), Str("n/a")}

\* admin, prod spec, sr. prod, team lead, international
CountCells ==
    {<<Str("2"), Str("3"), Str("1"), Str("1"), Str("1")>>,
     <<Str("1"), Str("4"), Str("2"), Str("1"), Str("0")>>,
     <<Str("0"), Str("0"), Str("0"), Str("0"), Str("1")>>}

\* The rows that can stand at position i under the header: whole, or without
\* their last cell (the API leaves a trailing empty cell out).
RepRowsAt(i, header) ==
    LET whole == {SubSeq(<<Str(RepNames[i]), Str("Doe"), s>> \o c, 1, Len(header)) :
                    s \in SalesCells, c \in CountCells}
    IN  whole \cup {SubSeq(r, 1, Len(r) - 1) : r \in whole}

RECURSIVE RepRowSeqsOfLen(_, _)
RepRowSeqsOfLen(n, header) ==
    IF n = 0 THEN {<<>>}
    ELSE {Append(q, r) : q \in RepRowSeqsOfLen(n - 1, header), r \in RepRowsAt(n, header)}

CapacityTables(maxReps) ==
    {<<>>} \cup
    UNION {{<<h>> \o rows : rows \in UNION {RepRowSeqsOfLen(n, h) : n \in 0..maxReps}} :
             h \in {CapacityHeader, ShortHeader}}

InitInsights ==
    /\ service = "None"
    /\ token = "valid"
    /\ credsFile = TRUE
    /\ sheets \in {[n \in SheetNames |-> IF n = CapacitySheet THEN t ELSE <<>>] :
                      t \in CapacityTables(MaxReps)}
    /\ project = NoProject
    /\ criteriaFile = <<>>
    /\ last = NoCall
    /\ cli = NoCli

NextInsights ==
    \/ \E env \in AuthEnv : authenticate(env)
    \/ \E api \in ApiOutcomes : get_capacity_insights(api)

SpecInsights == InitInsights /\ [][NextInsights]_vars

-----------------------------------------------------------------------------
(* The command-line tool: capacity_cli.py main().  A process loads the      *)
(* configuration, constructs a fresh instance, ensures authentication, runs *)
(* its command, prints its last line and exits.                             *)

Commands == {"auth", "generate", "export", "insights", "matrix", "update-matrix", "trigger"}

\* the commands that ensure authentication before they touch a range
GuardedCommands == {"generate", "export", "insights", "matrix", "update-matrix"}

\* --criteria: not given, naming no file, naming a file that is no JSON, or
\* naming a JSON file
CriteriaArgs == {"none", "missing", "invalid", "ok"}

ErrorLine == "Error: <exception>"
ConfigLine == "Error: config.json not found."
AuthOkLine == "Authentication successful!"
AuthFailedLine == "Authentication failed!"
DataLine == "Capacity model data retrieved"
NoDataLine == "No capacity model data found."
ExportedLine == "Exported to: <file>"
ExportFailedLine == "Export failed!"
InsightsLine == "Capacity Distribution:"
NoInsightsLine == "No insights available."
CriteriaLine == "Matrix Criteria:"
NoCriteriaLine == "No matrix criteria found."
UpdatedLine == "Matrix criteria updated successfully!"
UpdateFailedLine == "Failed to update matrix criteria!"
FileNotFoundLine == "Criteria file not found: <file>"
InvalidJsonLine == "Invalid JSON in criteria file"
NoCriteriaArgLine == "Please provide a criteria file with --criteria"
NoUrlLine == "Please provide webhook URL with --webhook-url"
TriggeredLine == "Capacity model generation triggered successfully!"
TriggerFailedLine == "Failed to trigger capacity model generation!"

\* get_capacity_model_data on an instance holding svc; the frame is returned
CapacityDataResult(svc, api) ==
    LET read == ReadResult(svc, CapacitySheet, api)
        frame == CapacityFrame(read.ret)
        called == [read EXCEPT !.op = "get_capacity_model_data", !.inp = sheets[CapacitySheet]]
    IN  IF read.outcome = "raise" THEN called
        ELSE IF frame.exc # "none"
          THEN [called EXCEPT !.outcome = "raise", !.exc = frame.exc, !.ret = "None"]
          ELSE [called EXCEPT !.ret = frame.df]

\* export_capacity_model_to_csv: "" for an empty frame, else the file name
ExportResult(svc, api) ==
    LET data == CapacityDataResult(svc, api)
        called == [data EXCEPT !.op = "export_capacity_model_to_csv"]
    IN  IF data.outcome = "raise" THEN called
        ELSE IF DfEmpty(data.ret) THEN [called EXCEPT !.ret = Str("")]
        ELSE [called EXCEPT !.ret = Str("<file>")]

\* The process after a call of the instance: its last line and exit code, and
\* what the call issued.
Finished(line, code, rec) ==
    [cli EXCEPT !.pc = "done", !.line = line, !.exit = code,
                !.rangeOps = @ + rec.gets + rec.updates,
                !.notAuthenticated = @ + IF rec.exc = "NotAuthenticated" THEN 1 ELSE 0]

\* except Exception as e: print, sys.exit(1)
Excepted(rec) == Finished(ErrorLine, 1, rec)

\* An authentication whose result is not looked at.
AfterAuthenticateUnchecked(command, ok) ==
    IF command = "auth"
      THEN [pc |-> "done", line |-> AuthOkLine, exit |-> 0]
      ELSE [pc |-> "run", line |-> "none", exit |-> 0]

\* if not sheets.authenticate(): print failure, sys.exit(1); the auth command
\* ends after a successful authentication, the others go on.
AfterAuthenticate(command, ok) ==
    IF ~ok THEN [pc |-> "done", line |-> AuthFailedLine, exit |-> 1]
    ELSE IF command = "auth"
      THEN [pc |-> "done", line |-> AuthOkLine, exit |-> 0]
      ELSE [pc |-> "run", line |-> "none", exit |-> 0]

\* A new process: load_config(), then a fresh GoogleSheetsIntegration.  The
\* trigger command does not authenticate; every other command does
\* (`if not sheets.service` holds of a fresh instance).
CliStart(command, config) ==
    /\ cli.pc \in {"idle", "done"}
    /\ service' = "None"
    /\ last' = NoCall
    /\ cli' = IF ~config
                THEN [NoCli EXCEPT !.pc = "done", !.command = command,
                                   !.line = ConfigLine, !.exit = 1]
                ELSE [NoCli EXCEPT !.command = command,
                                   !.pc = IF command = "trigger" THEN "run" ELSE "auth"]
    /\ UNCHANGED <<token, credsFile, sheets, project, criteriaFile>>

\* sheets.authenticate() of the process
CliAuthenticate(env) ==
    /\ cli.pc = "auth"
    /\ LET result == AuthenticateResult(service, token, credsFile, env)
           returned == result.last.outcome = "return"
           next == AfterAuthenticate(cli.command, returned /\ result.last.ret)
       IN  /\ service' = result.service
           /\ token' = result.token
           /\ last' = result.last
           /\ cli' = IF ~returned
                       THEN Excepted(result.last)
                       ELSE [cli EXCEPT !.pc = next.pc, !.line = next.line, !.exit = next.exit,
                                        !.authed = result.last.ret]
    /\ UNCHANGED <<credsFile, sheets, project, criteriaFile>>

CliGenerate(api) ==
    /\ cli.pc = "run" /\ cli.command = "generate"
    /\ LET rec == CapacityDataResult(service, api)
       IN  /\ last' = rec
           /\ cli' = IF rec.outcome = "raise" THEN Excepted(rec)
                      ELSE IF ~DfEmpty(rec.ret) THEN Finished(DataLine, 0, rec)
                      ELSE Finished(NoDataLine, 0, rec)
    /\ UNCHANGED <<service, token, credsFile, sheets, project, criteriaFile>>

CliExport(api) ==
    /\ cli.pc = "run" /\ cli.command = "export"
    /\ LET rec == ExportResult(service, api)
       IN  /\ last' = rec
           /\ cli' = IF rec.outcome = "raise" THEN Excepted(rec)
                      ELSE IF Truthy(rec.ret) THEN Finished(ExportedLine, 0, rec)
                      ELSE Finished(ExportFailedLine, 0, rec)
    /\ UNCHANGED <<service, token, credsFile, sheets, project, criteriaFile>>

CliInsights(api) ==
    /\ cli.pc = "run" /\ cli.command = "insights"
    /\ LET rec == InsightsResult(service, api)
       IN  /\ last' = rec
           /\ cli' = IF rec.outcome = "raise" THEN Excepted(rec)
                      ELSE IF DOMAIN rec.ret # {} THEN Finished(InsightsLine, 0, rec)
                      ELSE Finished(NoInsightsLine, 0, rec)
    /\ UNCHANGED <<service, token, credsFile, sheets, project, criteriaFile>>

CliMatrix(api) ==
    /\ cli.pc = "run" /\ cli.command = "matrix"
    /\ LET rec == GetCriteriaResult(service, api)
       IN  /\ last' = rec
           /\ cli' = IF rec.outcome = "raise" THEN Excepted(rec)
                      ELSE IF rec.ret # <<>> THEN Finished(CriteriaLine, 0, rec)
                      ELSE Finished(NoCriteriaLine, 0, rec)
    /\ UNCHANGED <<service, token, credsFile, sheets, project, criteriaFile>>

CliUpdateMatrix(criteria, api) ==
    /\ cli.pc = "run" /\ cli.command = "update-matrix"
    /\ LET rec == UpdateCriteriaResult(service, criteriaFile, api)
       IN  IF criteria = "ok"
             THEN /\ last' = rec
                  /\ cli' = IF rec.outcome = "raise" THEN Excepted(rec)
                             ELSE IF rec.ret THEN Finished(UpdatedLine, 0, rec)
                             ELSE Finished(UpdateFailedLine, 0, rec)
                  /\ sheets' = IF rec.outcome = "return" /\ rec.ret
                                 THEN [sheets EXCEPT ![MatrixSheet] = ApiStored(rec.sent)]
                                 ELSE sheets
             ELSE /\ cli' = Finished(CASE criteria = "none" -> NoCriteriaArgLine
                                        [] criteria = "missing" -> FileNotFoundLine
                                        [] criteria = "invalid" -> InvalidJsonLine,
                                      0, NoCall)
                  /\ UNCHANGED <<last, sheets>>
    /\ UNCHANGED <<service, token, credsFile, project, criteriaFile>>

CliTrigger(url, resp) ==
    /\ cli.pc = "run" /\ cli.command = "trigger"
    /\ LET rec == TriggerResult(service, resp)
       IN  IF ~url
             THEN /\ cli' = Finished(NoUrlLine, 1, NoCall)
                  /\ last' = last
             ELSE /\ last' = rec
                  /\ cli' = IF rec.ret THEN Finished(TriggeredLine, 0, rec)
                             ELSE Finished(TriggerFailedLine, 0, rec)
    /\ UNCHANGED <<service, token, credsFile, sheets, project, criteriaFile>>

(* The files and sheets the tool is run on *)

CliCapacityTables ==
    {<<>>, <<CapacityHeader>>,
     <<CapacityHeader, <<Str("John"), Str("Doe"), Str("1000"), Str("2"), Str("3"),
                         Str("1"), Str("1"), Str("1")>>>>,
     <<ShortHeader, <<Str("John"), Str("Doe"), Str("1000"), Str("2")>>>>}

CliMatrixTables ==
    {<<>>,
     <<MatrixHeader, <<Str("Admin"), Str("admin,management"), Str("0"), Str("500")>>>>,
     <<MatrixHeader, <<Str("Admin"), Str("admin,management"), Str("abc"), Str("500")>>>>}

CliCriteriaFiles ==
    {<<>>,
     <<[key |-> Str("Admin"),
        value |-> [keywords |-> Str("admin,management"), minSales |-> Num(100),
                   maxSales |-> Num(500)]]>>,
     <<[key |-> Str("Admin"), value |-> Str("admin,management")]>>}

InitCli ==
    /\ service = "None"
    /\ token \in TokenStates
    /\ credsFile \in BOOLEAN
    /\ sheets \in {[n \in SheetNames |-> IF n = CapacitySheet THEN c ELSE m] :
                      c \in CliCapacityTables, m \in CliMatrixTables}
    /\ project = NoProject
    /\ criteriaFile \in CliCriteriaFiles
    /\ last = NoCall
    /\ cli = NoCli

NextCli ==
    \/ \E command \in Commands, config \in BOOLEAN : CliStart(command, config)
    \/ \E env \in AuthEnv : CliAuthenticate(env)
    \/ \E api \in ApiOutcomes : CliGenerate(api)
    \/ \E api \in ApiOutcomes : CliExport(api)
    \/ \E api \in ApiOutcomes : CliInsights(api)
    \/ \E api \in ApiOutcomes : CliMatrix(api)
    \/ \E criteria \in CriteriaArgs, api \in ApiOutcomes : CliUpdateMatrix(criteria, api)
    \/ \E url \in BOOLEAN, resp \in Responses : CliTrigger(url, resp)

SpecCli == InitCli /\ [][NextCli]_vars

-----------------------------------------------------------------------------
(* Properties of the range store adapter and the webhook trigger *)

IsRangeOp == last.op \in {"read_sheet_data", "write_sheet_data"}
IsTrigger == last.op = "trigger_capacity_model_generation"

\* C1: a read_sheet_data or write_sheet_data call made while service is still
\* None raises the 'Not authenticated' error, issues no get or update call to
\* the spreadsheet API, and is not turned into [] or False.
C1_UnauthenticatedRaises ==
    (IsRangeOp /\ last.pre = "None") =>
        /\ last.outcome = "raise"
        /\ last.exc = "NotAuthenticated"
        /\ last.gets = 0
        /\ last.updates = 0
        /\ last.api = "none"

C1_Witness ==
    /\ last.op = "read_sheet_data"
    /\ last.pre = "None"
    /\ last.outcome = "raise"
    /\ last.exc = "NotAuthenticated"
    /\ last.inp = MatrixSheet

\* C2: on an authenticated instance, when the spreadsheet API call fails,
\* read_sheet_data returns [] and write_sheet_data returns False, no exception
\* reaches the caller, and the instance stays authenticated.
C2_ApiFailureIsAbsorbed ==
    (IsRangeOp /\ last.pre # "None" /\ last.api = "fail") =>
        /\ last.outcome = "return"
        /\ last.exc = "none"
        /\ (last.op = "read_sheet_data" => last.ret = <<>>)
        /\ (last.op = "write_sheet_data" => last.ret = FALSE)
        /\ service = last.pre

C2_Witness ==
    /\ last.op = "write_sheet_data"
    /\ last.pre = "svc"
    /\ last.api = "fail"
    /\ last.ret = FALSE
    /\ sheets[last.inp] # ApiStored(last.sent)

RequestFailed(resp) ==
    \/ resp.net # "ok"
    \/ ~IsSuccessStatus(resp.status_code)
    \/ resp.body.kind = "unparsable"

\* C4: each call of the trigger sends exactly one HTTP request; when it ends in
\* a network error, a timeout, a non-success status or an unparsable body the
\* call returns False, without a second request and without raising.
C4_OneRequestNoRetry ==
    IsTrigger =>
        /\ last.posts = 1
        /\ last.outcome = "return"
        /\ RequestFailed(last.inp) => last.ret = FALSE

C4_Witness ==
    /\ IsTrigger
    /\ last.inp.net = "Timeout"
    /\ last.posts = 1
    /\ last.ret = FALSE

-----------------------------------------------------------------------------
(* Properties of the matrix classifier *)

IsClassify == last.op = "classify"

Lowered == ToLower(last.inp.description)

\* rule i of the classified rule set has a keyword in the lower-cased description
MatchesAt(i) == KeywordMatches(last.inp.rules[i], Lowered)

\* rule i also has the sales amount inside its band
QualifiesAt(i) == MatchesAt(i) /\ InBand(last.inp.rules[i], last.inp.salesAmount)

\* C5: for a non-empty RuleSet of N rules and a description in which no keyword
\* of any rule matches, classify returns the role of the N-th (last) rule, never
\* a sentinel or 'unclassified' value.
C5_FallbackToLastRule ==
    (/\ IsClassify
     /\ last.inp.rules # <<>>
     /\ \A i \in DOMAIN last.inp.rules : ~MatchesAt(i)) =>
        last.ret = last.inp.rules[Len(last.inp.rules)].role

C5_Witness ==
    /\ IsClassify
    /\ Len(last.inp.rules) = 2
    /\ last.inp.description = <<"B", "B">>
    /\ \A i \in DOMAIN last.inp.rules : ~MatchesAt(i)
    /\ last.ret = "Production Specialist"

\* C6: classify returns the role of the first rule, in RuleSet order, that has
\* a keyword occurring in the lower-cased description and whose sales band
\* contains the amount; later rules never change the outcome, and a rule whose
\* keyword matches but whose band excludes the amount is passed over.
C6_FirstQualifyingRuleWins ==
    IsClassify =>
        \A i \in DOMAIN last.inp.rules :
            (QualifiesAt(i) /\ \A j \in 1..(i - 1) : ~QualifiesAt(j)) =>
                last.ret = last.inp.rules[i].role

C6_Witness ==
    /\ IsClassify
    /\ Len(last.inp.rules) = 2
    /\ MatchesAt(1) /\ ~QualifiesAt(1)
    /\ QualifiesAt(2)
    /\ last.inp.description = <<"a", "B">>
    /\ last.ret = "Production Specialist"

-----------------------------------------------------------------------------
(* Properties of the criteria repository *)

IsGet == last.op = "get_matrix_criteria"
IsUpdate == last.op = "update_matrix_criteria"
IsSaveLoaded == last.op = "save_loaded"

\* the row has at least two non-empty leading cells: a role and keywords
HasRoleAndKeywords(row) == Len(row) >= 2 /\ Truthy(row[1]) /\ Truthy(row[2])

\* the band a cell stands for: its value where it is given and parses, else
\* the default
BandOf(row, k, default) ==
    IF CellGiven(row, k) /\ CanParseFloat(row[k].str)
      THEN Num(FloatOf(row[k].str))
      ELSE Num(default)

\* C7: load skips the first row as header and, of the later rows, loads a rule
\* for exactly those with at least two non-empty leading cells (role,
\* keywords); a row with only these two cells is loaded.
C7_LoadsRowsWithRoleAndKeywords ==
    (IsGet /\ last.outcome = "return" /\ last.api = "ok") =>
        /\ \A i \in 2..Len(last.inp) :
              HasRoleAndKeywords(last.inp[i]) =>
                  \E k \in DOMAIN last.ret : last.ret[k].key = last.inp[i][1]
        /\ \A k \in DOMAIN last.ret :
              \E i \in 2..Len(last.inp) :
                  HasRoleAndKeywords(last.inp[i]) /\ last.inp[i][1] = last.ret[k].key

\* C8: when load accepts a row, a third or fourth cell that is absent, empty
\* or not parsable as a number gives minSales = 0 and maxSales = 999999999;
\* load never raises because of such a cell.
C8_UnparsableBandsDefault ==
    (IsGet /\ last.pre # "None" /\ last.api = "ok") =>
        /\ last.outcome = "return"
        /\ \A i \in 2..Len(last.inp) :
              (/\ RowAccepted(last.inp[i])
               /\ \A j \in (i + 1)..Len(last.inp) :
                     RowAccepted(last.inp[j]) => last.inp[j][1] # last.inp[i][1]) =>
                  \E k \in DOMAIN last.ret :
                      /\ last.ret[k].key = last.inp[i][1]
                      /\ last.ret[k].value.minSales = BandOf(last.inp[i], 3, 0)
                      /\ last.ret[k].value.maxSales = BandOf(last.inp[i], 4, 999999999)

IsCriteriaTable(t) ==
    /\ Len(t) >= 1
    /\ \A i \in 2..Len(t) : HasRoleAndKeywords(t[i]) /\ ~RowRaises(t[i])
    /\ \A i, j \in 2..Len(t) : t[i][1] = t[j][1] => i = j

\* C10: for every criteria table stored in the Matrix sheet, saving the
\* unmodified result of load writes a table with the same roles, keywords and
\* sales bands, in the same row order, as the stored table.
C10_SaveLoadRoundTrip ==
    (IsSaveLoaded /\ last.pre # "None" /\ last.api = "ok" /\ IsCriteriaTable(last.inp)) =>
        /\ last.outcome = "return"
        /\ Len(last.sent) = Len(last.inp)
        /\ \A i \in 2..Len(last.inp) :
              /\ last.sent[i][1] = last.inp[i][1]
              /\ last.sent[i][2] = last.inp[i][2]
              /\ last.sent[i][3] = BandOf(last.inp[i], 3, 0)
              /\ last.sent[i][4] = BandOf(last.inp[i], 4, 999999999)

-----------------------------------------------------------------------------
(* Properties of the aggregator *)

IsInsights == last.op = "get_capacity_insights"

\* the call returned a summary that is not the empty one
HasSummary == IsInsights /\ last.outcome = "return" /\ DOMAIN last.ret # {}

\* the sales of the i-th sales rep of the stored sheet, as a number
StoredSales(i) ==
    LET row == last.inp[i + 1]
    IN  IF Len(row) >= 3 THEN ToNumeric(row[3]).num ELSE 0

StoredReps == Len(last.inp) - 1

\* C11: when the capacity dataset is empty (no rows, or the sheet read
\* failed), get_capacity_insights returns the empty summary, with no average,
\* top performer or percentage in it, and raises nothing.
C11_EmptyDatasetGivesEmptySummary ==
    (IsInsights /\ last.pre # "None" /\ (last.api = "fail" \/ Len(last.inp) <= 1)) =>
        /\ last.outcome = "return"
        /\ last.exc = "none"
        /\ DOMAIN last.ret = {}

C11_Witness ==
    /\ IsInsights
    /\ last.pre = "svc"
    /\ last.api = "ok"
    /\ last.inp = <<CapacityHeader>>
    /\ last.outcome = "return"
    /\ DOMAIN last.ret = {}

\* C12: for a non-empty collection of CapacityRows, total_sales_reps is the
\* number of rows, total_sales is the sum of the rows' sales, and
\* avg_sales_per_rep times total_sales_reps is total_sales.
C12_TotalsAndAverage ==
    HasSummary =>
        /\ last.ret.total_sales_reps = StoredReps
        /\ last.ret.total_sales = SumSeq([i \in 1..StoredReps |-> StoredSales(i)])
        /\ last.ret.avg_sales_per_rep.den > 0
        /\ last.ret.avg_sales_per_rep.num * last.ret.total_sales_reps
             = last.ret.total_sales * last.ret.avg_sales_per_rep.den

C12_Witness ==
    /\ HasSummary
    /\ StoredReps = 2
    /\ StoredSales(1) = 1000
    /\ StoredSales(2) = 2000
    /\ last.ret.total_sales = 3000
    /\ last.ret.avg_sales_per_rep = [num |-> 3000, den |-> 2]

\* C13: for a non-empty collection of CapacityRows, top_performer is a row
\* whose sales is the maximum over all rows, and of several rows that share
\* the maximum it is the first in input order.
C13_TopPerformerIsFirstMaximum ==
    HasSummary =>
        \E i \in 1..StoredReps :
            /\ last.ret.top_performer["Sales Rep First"] = last.inp[i + 1][1]
            /\ last.ret.top_performer["Sales ($)"] = Num(StoredSales(i))
            /\ \A j \in 1..StoredReps : StoredSales(j) <= StoredSales(i)
            /\ \A j \in 1..(i - 1) : StoredSales(j) < StoredSales(i)

C13_Witness ==
    /\ HasSummary
    /\ StoredReps = 2
    /\ StoredSales(1) = 2000
    /\ StoredSales(2) = 2000
    /\ last.ret.top_performer["Sales Rep First"] = Str("John")

\* the four roles that have a percentage, with the key of their total and the
\* key of their percentage
PercentageRoles ==
    {<<"admin", "admin_percentage">>, <<"prod_spec", "prod_spec_percentage">>,
     <<"sr_prod", "sr_prod_percentage">>, <<"team_lead", "team_lead_percentage">>}

\* the key under which a role of total_projects would have its percentage
PercentageKey(role) ==
    CASE role = "admin" -> "admin_percentage"
      [] role = "prod_spec" -> "prod_spec_percentage"
      [] role = "sr_prod" -> "sr_prod_percentage"
      [] role = "team_lead" -> "team_lead_percentage"
      [] role = "international" -> "international_percentage"

\* the total count over the four roles
SummaryRoleTotal ==
    last.ret.total_projects.admin + last.ret.total_projects.prod_spec
    + last.ret.total_projects.sr_prod + last.ret.total_projects.team_lead

\* the total over every entry of total_projects
SummaryProjectTotal == SummaryRoleTotal + last.ret.total_projects.international

\* C14: for a non-empty collection of CapacityRows, the role percentages sum
\* to 100 when the total role count is greater than zero, and every role
\* percentage is 0 when the total role count is zero.  The roles are the four
\* that have a percentage.
C14_PercentagesSumTo100 ==
    HasSummary =>
        LET d == last.ret.capacity_distribution
            a == d.admin_percentage
            p == d.prod_spec_percentage
            s == d.sr_prod_percentage
            t == d.team_lead_percentage
        IN  /\ SummaryRoleTotal > 0 =>
                  a.num * p.den * s.den * t.den + p.num * a.den * s.den * t.den
                  + s.num * a.den * p.den * t.den + t.num * a.den * p.den * s.den
                    = 100 * a.den * p.den * s.den * t.den
            /\ SummaryRoleTotal = 0 =>
                  a.num = 0 /\ p.num = 0 /\ s.num = 0 /\ t.num = 0

C14_Witness ==
    /\ HasSummary
    /\ StoredReps = 2
    /\ last.ret.total_projects = [admin |-> 3, prod_spec |-> 7, sr_prod |-> 3,
                                   team_lead |-> 2, international |-> 1]
    /\ last.ret.capacity_distribution.prod_spec_percentage = [num |-> 700, den |-> 15]

\* C16 as stated: every role that has a total in total_projects has a
\* percentage, equal to 100 * roleTotal over the sum of all of the per-role
\* totals, and to 0 when that sum is zero.
C16_Original ==
    HasSummary =>
        \A role \in DOMAIN last.ret.total_projects :
            /\ PercentageKey(role) \in DOMAIN last.ret.capacity_distribution
            /\ LET pct == last.ret.capacity_distribution[PercentageKey(role)]
               IN  IF SummaryProjectTotal = 0
                     THEN pct.num = 0
                     ELSE pct.num * SummaryProjectTotal
                            = 100 * last.ret.total_projects[role] * pct.den

\* C16 amended: each of the four roles admin, prod_spec, sr_prod and team_lead
\* has a percentage equal to 100 * roleTotal over the sum of the totals of
\* these four roles, and to 0 when that sum is not greater than zero; the
\* international total has no percentage and is not part of the sum.
C16_PercentageOfTheFourRoles ==
    HasSummary =>
        /\ DOMAIN last.ret.capacity_distribution = {r[2] : r \in PercentageRoles}
        /\ \A r \in PercentageRoles :
              LET pct == last.ret.capacity_distribution[r[2]]
              IN  /\ pct.den > 0
                  /\ IF SummaryRoleTotal > 0
                        THEN pct.num * SummaryRoleTotal
                               = 100 * last.ret.total_projects[r[1]] * pct.den
                        ELSE pct.num = 0

C16_Witness ==
    /\ HasSummary
    /\ StoredReps = 1
    /\ last.ret.total_projects = [admin |-> 2, prod_spec |-> 3, sr_prod |-> 1,
                                   team_lead |-> 1, international |-> 1]
    /\ last.ret.capacity_distribution.admin_percentage = [num |-> 200, den |-> 7]

-----------------------------------------------------------------------------
(* Properties of authenticate() *)

IsAuthenticate == last.op = "authenticate"

\* C18: service is non-null only if an earlier authenticate() returned True:
\* it is None after construction, and it changes only in a step that is an
\* authenticate() call returning True.  A call that returns False or raises,
\* and every other operation, leaves service as it was.
C18_ServiceSetOnlyByAuthenticate ==
    /\ service = "None"
    /\ [][IF last'.op = "authenticate" /\ last'.outcome = "return"
            THEN last'.ret = TRUE \/ service' = service
            ELSE service' = service]_vars

\* an authenticate() that returned False on an instance that held a service
C18_Witness ==
    /\ IsAuthenticate
    /\ last.outcome = "return"
    /\ last.ret = FALSE
    /\ last.pre = "svc"
    /\ service = "svc"

\* the refresh or the interactive authorization of the call ran to its end
AuthorizationCompleted ==
    /\ last.refreshes + last.flows = 1
    /\ last.exc \notin {"RefreshError", "FlowError"}

\* C19: authenticate() writes the credential cache exactly when the cached
\* credentials were absent or invalid and a refresh or an interactive
\* authorization completed; with valid cached credentials the cache is left
\* unchanged and no authorization is started; with the credentials file
\* missing and no usable cache it raises without writing the cache.
C19_CacheWrittenExactlyOnRenewal ==
    IsAuthenticate =>
        /\ last.tokenWrites \in {0, 1}
        /\ last.tokenWrites = 1 <=> (last.inp # "valid" /\ AuthorizationCompleted)
        /\ last.tokenWrites = 0 => token = last.inp
        /\ last.inp = "valid" =>
              last.tokenWrites = 0 /\ last.flows = 0 /\ last.refreshes = 0
        /\ (last.inp \in {"absent", "stale"} /\ ~credsFile) =>
              /\ last.outcome = "raise"
              /\ last.exc = "FileNotFoundError"
              /\ last.tokenWrites = 0
              /\ last.flows = 0

\* a refreshed cache is written even though build() then fails
C19_Witness ==
    /\ IsAuthenticate
    /\ last.inp = "expired"
    /\ last.refreshes = 1
    /\ last.tokenWrites = 1
    /\ token = "valid"
    /\ last.outcome = "return"
    /\ last.ret = FALSE

-----------------------------------------------------------------------------
(* Properties of the command-line tool *)

CliDone == cli.pc = "done"

\* the last lines that report one of the failures: authentication failed,
\* export failed, matrix update failed, criteria file missing or invalid,
\* webhook trigger failed, an exception
FailureLines ==
    {AuthFailedLine, ExportFailedLine, UpdateFailedLine, FileNotFoundLine,
     InvalidJsonLine, TriggerFailedLine, ErrorLine}

\* the last lines that report success
SuccessLines == {AuthOkLine, DataLine, ExportedLine, InsightsLine, CriteriaLine,
                 UpdatedLine, TriggeredLine}

\* C15: every command ends with a success or a failure line and the exit code
\* follows it: a process that ended in failure (authentication failed, export
\* failed, matrix update failed, criteria file missing or invalid, webhook
\* trigger failed, an exception) exits with 1, and one that reports success
\* exits with 0.
C15_ExitCodeFollowsOutcome ==
    CliDone =>
        /\ cli.line \in FailureLines => cli.exit = 1
        /\ cli.line \in SuccessLines => cli.exit = 0

\* C17: in a process running generate, export, insights, matrix or
\* update-matrix, a range read or write is issued only after an authenticate()
\* of the process returned True; a process whose authentication did not
\* succeed ends with exit code 1 having issued no range operation; no range
\* operation of the process raises 'Not authenticated'.
C17_RangeOpsOnlyAfterAuthentication ==
    cli.command \in GuardedCommands =>
        /\ cli.pc = "run" => cli.authed /\ service # "None"
        /\ cli.rangeOps > 0 => cli.authed
        /\ (CliDone /\ ~cli.authed) => (cli.exit = 1 /\ cli.rangeOps = 0)
        /\ cli.notAuthenticated = 0

\* an insights process that authenticated and then read the capacity sheet
C17_Witness ==
    /\ CliDone
    /\ cli.command = "insights"
    /\ cli.authed
    /\ cli.rangeOps = 1
    /\ cli.exit = 0
    /\ last.op = "get_capacity_insights"
    /\ last.pre = "svc"

\* a process whose authenticate() returned False: it ended without a range
\* operation
C17_FailedAuthentication ==
    /\ CliDone
    /\ cli.command = "export"
    /\ ~cli.authed
    /\ cli.line = AuthFailedLine
    /\ cli.exit = 1
    /\ cli.rangeOps = 0

====
